---- MODULE Spec2Model ----
(***************************************************************************)
(* Model of the Framework Laptop platform driver (framework_laptop.c).     *)
(*                                                                         *)
(* Two specifications share the module:                                    *)
(*   Spec      the attach/detach life cycle: framework_probe and           *)
(*             framework_remove, stepped statement by statement, and the   *)
(*             driver core's devres release that follows them;             *)
(*   SpecCall  the capability handlers (sysfs show/store, LED get/set,     *)
(*             battery hook callbacks, ec_count_fans), each one call a     *)
(*             step, against an EC transport whose answers are arbitrary.  *)
(***************************************************************************)
EXTENDS Integers, Sequences, FiniteSets, TLC

\* ------------------------------------------------------------------ errno
EIO == 5
ENOMEM == 12
EEXIST == 17
ENODEV == 19
EINVAL == 22
ENOSPC == 28
ERANGE == 34

\* ------------------------------------------------- protocol constants
CHG_LIMIT_SET_LIMIT == 2
CHG_LIMIT_GET_LIMIT == 8
EC_FAN_SPEED_ENTRIES == 4
EC_FAN_SPEED_NOT_PRESENT == 65535
EC_FAN_SPEED_STALLED == 65534
EC_PWM_MAX_DUTY == 65535
FW_ATTRS_PER_FAN == 8
INT_MAX == (32767 * 65536) + 65535

\* ------------------------------------------------------- model bounds
\* Number of framework_probe calls a behaviour may start.
MaxProbes == 3

\* ------------------------------------------------ 32-bit machine words
\* A 32-bit object is kept as its two 16-bit halves <<hi, lo>>.
W16 == 256 * 256
U32(hi, lo) == <<hi, lo>>
Hi(w) == w[1]
Lo(w) == w[2]
\* The object read as a signed int (two's complement): is it negative?
IntNegative(w) == Hi(w) >= 32768
\* `value > k` for an int object `value` and a constant 0 <= k < 65536.
IntGreater(w, k) == ~IntNegative(w) /\ (Hi(w) > 0 \/ Lo(w) > k)
\* (uint8_t)value
ToU8(w) == Lo(w) % 256

\* -------------------------------------------------- pointers and names
NULL == "NULL"
\* The device bus_find_device returns, and its parent (the cros_ec device).
EcChild == "cros-ec-dev"
EcParent == "cros-ec-dev.parent"
\* The platform devices the driver binds: the one the module creates in
\* framework_laptop_init and one enumerated from the ACPI id table.
Devs == {"framework_laptop", "FRMW0001"}

\* ----------------------------------------------- the hwmon attribute table
AttrOrder == <<"input", "target", "fault", "alarm", "pwm_enable", "pwm", "pwm_min", "pwm_max">>
NullAttr == <<>>
SensorAttr(fan, k) == <<fan, AttrOrder[k]>>
TableLen == EC_FAN_SPEED_ENTRIES * FW_ATTRS_PER_FAN
\* The static initialiser of fw_hwmon_attrs: 4 x 8 attributes, then NULL.
fw_hwmon_attrs_init ==
    [i \in 0..TableLen |->
        IF i = TableLen THEN NullAttr
        ELSE SensorAttr(i \div FW_ATTRS_PER_FAN, (i % FW_ATTRS_PER_FAN) + 1)]
\* Index of the first NULL entry of a table (the table always ends in one).
FirstNull(tbl) == CHOOSE i \in 0..TableLen : tbl[i] = NullAttr /\ \A j \in 0..(i - 1) : tbl[j] # NullAttr
\* What registering the attribute group publishes: the entries before the
\* first NULL, in order.
GroupAttrs(tbl) == [k \in 1..FirstNull(tbl) |-> tbl[k - 1]]

\* ------------------------------------------------------ fan discovery
\* A fan table as the EC memory map holds it: EC_FAN_SPEED_ENTRIES u16.
FanVals == {0, 1200, EC_FAN_SPEED_STALLED, EC_FAN_SPEED_NOT_PRESENT}
FanTableVals == {1200, EC_FAN_SPEED_STALLED, EC_FAN_SPEED_NOT_PRESENT}
FanTables == [0..(EC_FAN_SPEED_ENTRIES - 1) -> FanTableVals]
\* (mutant) the scan also stops at a stalled fan
RECURSIVE ScanFans_StopsAtStalled(_, _)
ScanFans_StopsAtStalled(fans, i) ==
    IF i >= EC_FAN_SPEED_ENTRIES THEN EC_FAN_SPEED_ENTRIES
    ELSE IF fans[i] >= EC_FAN_SPEED_STALLED THEN i
    ELSE ScanFans_StopsAtStalled(fans, i + 1)
\* The scan loop of ec_count_fans from index i.
RECURSIVE ScanFans(_, _)
ScanFans(fans, i) ==
    IF i >= EC_FAN_SPEED_ENTRIES THEN EC_FAN_SPEED_ENTRIES
    ELSE IF fans[i] = EC_FAN_SPEED_NOT_PRESENT THEN i
    ELSE ScanFans(fans, i + 1)
\* ec_count_fans: dev the handle, readmem the status of the memory read,
\* fans the table it filled in; out is *val, written only on success.
ec_count_fans(dev, readmem, fans) ==
    IF dev = NULL THEN [ret |-> 0 - ENODEV, out |-> 0 - 1, xfer |-> <<>>]
    ELSE LET x == <<[cmd |-> "cmd_readmem", a |-> 0, b |-> 2 * EC_FAN_SPEED_ENTRIES,
                     w |-> <<0, 0>>, status |-> readmem]>>
         IN  IF readmem < 0 THEN [ret |-> 0 - EIO, out |-> 0 - 1, xfer |-> x]
             ELSE [ret |-> 0, out |-> ScanFans(fans, 0), xfer |-> x]

\* ------------------------------------------------------ text to number
\* A sysfs write buffer is a sequence of characters.
DigitChars == <<"0", "1", "2", "3", "4", "5", "6", "7", "8", "9">>
IsDigit(c) == \E i \in 1..10 : DigitChars[i] = c
DigitVal(c) == (CHOOSE i \in 1..10 : DigitChars[i] = c) - 1
\* _parse_integer: consume decimal digits of s from position i on, into the
\* 32-bit accumulator <<hi, lo>>; over is set once the value passes 2^32 - 1.
RECURSIVE ParseInteger(_, _, _)
ParseInteger(s, i, acc) ==
    IF i > Len(s) \/ ~IsDigit(s[i]) THEN [acc EXCEPT !.next = i]
    ELSE LET lo10 == (Lo(acc.val) * 10) + DigitVal(s[i])
             hi10 == (Hi(acc.val) * 10) + (lo10 \div W16)
         IN  ParseInteger(s, i + 1,
                [val |-> U32(hi10 % W16, lo10 % W16),
                 over |-> acc.over \/ hi10 >= W16,
                 next |-> i + 1])
\* kstrtouint(buf, 10, &res) / kstrtou32: an optional '+', at least one digit,
\* an optional final newline, nothing else; the value must fit 32 bits.
kstrtouint(buf) ==
    LET start == IF Len(buf) >= 1 /\ buf[1] = "+" THEN 2 ELSE 1
        p == ParseInteger(buf, start, [val |-> U32(0, 0), over |-> FALSE, next |-> start])
        rest == IF p.next <= Len(buf) /\ buf[p.next] = "\n" THEN p.next + 1 ELSE p.next
    IN  IF p.next = start THEN [err |-> 0 - EINVAL, val |-> U32(0, 0)]
        ELSE IF rest <= Len(buf) THEN [err |-> 0 - EINVAL, val |-> U32(0, 0)]
        ELSE IF p.over THEN [err |-> 0 - ERANGE, val |-> U32(0, 0)]
        ELSE [err |-> 0, val |-> p.val]

\* ------------------------------------------------------ number to text
\* Number of characters sysfs_emit(buf, "%d\n" / "%u\n", n) writes, n >= 0.
RECURSIVE DecLen(_)
DecLen(n) == IF n < 10 THEN 1 ELSE 1 + DecLen(n \div 10)
sysfs_emit(n) == DecLen(n) + 1

\* ------------------------------------------------------- the transport
\* One exchange with the EC as the handler issued it: the command, its byte
\* sized parameters a and b, its 32-bit parameter w, and the status the
\* transport returned.
Xfer(cmd, a, b, w, status) == [cmd |-> cmd, a |-> a, b |-> b, w |-> w, status |-> status]
\* Statuses a transport call may return: negative errno values, or success.
XferStatuses == {0 - EIO, 0 - ENODEV, 0}
\* What a handler hands back: its return value, the number it emitted into
\* the sysfs buffer (NoOut when it emitted nothing) and the exchanges it made.
NoOut == 0 - 1
Res(ret, out, xfer) == [ret |-> ret, out |-> out, xfer |-> xfer]

\* ------------------------------------------------------- charge limit
charge_limit_control(dev, modes, max_percentage, status, resp) ==
    IF dev = NULL THEN Res(0 - ENODEV, NoOut, <<>>)
    ELSE LET x == <<Xfer("EC_CMD_CHARGE_LIMIT_CONTROL", modes, max_percentage, U32(0, 0), status)>>
         IN  IF status < 0 THEN Res(0 - EIO, NoOut, x)
             ELSE Res(resp, NoOut, x)

battery_get_threshold(dev, status, resp) ==
    LET r == charge_limit_control(dev, CHG_LIMIT_GET_LIMIT, 0, status, resp)
    IN  IF r.ret < 0 THEN r
        ELSE Res(sysfs_emit(r.ret), r.ret, r.xfer)

\* `value` is an int filled in by kstrtouint; `value > 100` is a signed
\* comparison and the call passes (uint8_t)value.
battery_set_threshold(dev, buf, status, resp) ==
    LET p == kstrtouint(buf)
    IN  IF p.err # 0 THEN Res(p.err, NoOut, <<>>)
        ELSE IF IntGreater(p.val, 100) THEN Res(0 - EINVAL, NoOut, <<>>)
        ELSE LET r == charge_limit_control(dev, CHG_LIMIT_SET_LIMIT, ToU8(p.val), status, resp)
             IN  IF r.ret < 0 THEN r
                 ELSE Res(Len(buf), NoOut, r.xfer)

\* -------------------------------------------------- keyboard backlight
\* (mutant) a failed exchange is returned as -EIO
kb_led_get_Propagates(dev, status, duty) ==
    IF dev = NULL THEN Res(0, NoOut, <<>>)
    ELSE LET x == <<Xfer("EC_CMD_PWM_GET_DUTY", 0, 0, U32(0, 0), status)>>
         IN  IF status < 0 THEN Res(0 - EIO, NoOut, x)
             ELSE Res((duty * 100) \div EC_PWM_MAX_DUTY, NoOut, x)
\* (mutant) the duty is scaled by 2^16 instead of EC_PWM_MAX_DUTY
kb_led_get_Div65536(dev, status, duty) ==
    IF dev = NULL THEN Res(0, NoOut, <<>>)
    ELSE LET x == <<Xfer("EC_CMD_PWM_GET_DUTY", 0, 0, U32(0, 0), status)>>
         IN  IF status < 0 THEN Res(0, NoOut, x)
             ELSE Res((duty * 100) \div W16, NoOut, x)
\* resp->duty is a u16, promoted to int for duty * 100 / EC_PWM_MAX_DUTY.
kb_led_get(dev, status, duty) ==
    IF dev = NULL THEN Res(0, NoOut, <<>>)
    ELSE LET x == <<Xfer("EC_CMD_PWM_GET_DUTY", 0, 0, U32(0, 0), status)>>
         IN  IF status < 0 THEN Res(0, NoOut, x)
             ELSE Res((duty * 100) \div EC_PWM_MAX_DUTY, NoOut, x)

kb_led_set(dev, value, status) ==
    IF dev = NULL THEN Res(0 - EIO, NoOut, <<>>)
    ELSE LET x == <<Xfer("EC_CMD_PWM_SET_KEYBOARD_BACKLIGHT", value % 256, 0, U32(0, 0), status)>>
         IN  IF status < 0 THEN Res(0 - EIO, NoOut, x)
             ELSE Res(0, NoOut, x)

\* ----------------------------------------------------------- fan speed
\* ec_get_fan_speed returns what cmd_readmem returned; raw is the u16 read.
ec_get_fan_speed(dev, idx, status, raw) ==
    IF dev = NULL THEN Res(0 - ENODEV, NoOut, <<>>)
    ELSE Res(status, raw, <<Xfer("cmd_readmem", 2 * idx, 2, U32(0, 0), status)>>)

\* (mutant) the sentinels are emitted as they are read
fw_fan_speed_show_Raw(dev, idx, status, raw) ==
    LET r == ec_get_fan_speed(dev, idx, status, raw)
    IN  IF r.ret < 0 THEN Res(0 - EIO, NoOut, r.xfer)
        ELSE Res(sysfs_emit(r.out), r.out, r.xfer)
fw_fan_speed_show(dev, idx, status, raw) ==
    LET r == ec_get_fan_speed(dev, idx, status, raw)
    IN  IF r.ret < 0 THEN Res(0 - EIO, NoOut, r.xfer)
        ELSE IF r.out = EC_FAN_SPEED_NOT_PRESENT \/ r.out = EC_FAN_SPEED_STALLED
             THEN Res(sysfs_emit(0), 0, r.xfer)
        ELSE Res(sysfs_emit(r.out), r.out, r.xfer)

fw_fan_fault_show(dev, idx, status, raw) ==
    LET r == ec_get_fan_speed(dev, idx, status, raw)
        bit == IF r.out = EC_FAN_SPEED_NOT_PRESENT THEN 1 ELSE 0
    IN  IF r.ret < 0 THEN Res(0 - EIO, NoOut, r.xfer)
        ELSE Res(sysfs_emit(bit), bit, r.xfer)

fw_fan_alarm_show(dev, idx, status, raw) ==
    LET r == ec_get_fan_speed(dev, idx, status, raw)
        bit == IF r.out = EC_FAN_SPEED_STALLED THEN 1 ELSE 0
    IN  IF r.ret < 0 THEN Res(0 - EIO, NoOut, r.xfer)
        ELSE Res(sysfs_emit(bit), bit, r.xfer)

\* ---------------------------------------------------------- fan target
ec_set_target_rpm(dev, idx, val, status) ==
    IF dev = NULL THEN Res(0 - ENODEV, NoOut, <<>>)
    ELSE LET x == <<Xfer("EC_CMD_PWM_SET_FAN_TARGET_RPM", idx, 0, val, status)>>
         IN  IF status < 0 THEN Res(0 - EIO, NoOut, x) ELSE Res(0, NoOut, x)

ec_get_target_rpm(dev, idx, status, rpm) ==
    IF dev = NULL THEN Res(0 - ENODEV, NoOut, <<>>)
    ELSE LET x == <<Xfer("EC_CMD_PWM_GET_FAN_TARGET_RPM", 0, 0, U32(0, 0), status)>>
         IN  IF status < 0 THEN Res(0 - EIO, NoOut, x) ELSE Res(0, rpm, x)

fw_fan_target_store(dev, idx, buf, status) ==
    LET p == kstrtouint(buf)
    IN  IF p.err < 0 THEN Res(p.err, NoOut, <<>>)
        ELSE LET r == ec_set_target_rpm(dev, idx, p.val, status)
             IN  IF r.ret < 0 THEN Res(0 - EIO, NoOut, r.xfer)
                 ELSE Res(Len(buf), NoOut, r.xfer)

fw_fan_target_show(dev, idx, status, rpm) ==
    IF idx # 0 THEN Res(0 - EINVAL, NoOut, <<>>)
    ELSE LET r == ec_get_target_rpm(dev, idx, status, rpm)
         IN  IF r.ret < 0 THEN Res(0 - EIO, NoOut, r.xfer)
             ELSE Res(sysfs_emit(r.out), r.out, r.xfer)

\* ------------------------------------------------- pwm enable and duty
ec_set_auto_fan_ctrl(dev, idx, status) ==
    IF dev = NULL THEN Res(0 - ENODEV, NoOut, <<>>)
    ELSE LET x == <<Xfer("EC_CMD_THERMAL_AUTO_FAN_CTRL", idx, 0, U32(0, 0), status)>>
         IN  IF status < 0 THEN Res(0 - EIO, NoOut, x) ELSE Res(0, NoOut, x)

\* the buffer is not parsed
fw_pwm_enable_store(dev, idx, buf, status) ==
    LET r == ec_set_auto_fan_ctrl(dev, idx, status)
    IN  IF r.ret < 0 THEN Res(0 - EIO, NoOut, r.xfer)
        ELSE Res(Len(buf), NoOut, r.xfer)

ec_set_fan_duty(dev, idx, val, status) ==
    IF dev = NULL THEN Res(0 - ENODEV, NoOut, <<>>)
    ELSE LET x == <<Xfer("EC_CMD_PWM_SET_FAN_DUTY", idx, 0, val, status)>>
         IN  IF status < 0 THEN Res(0 - EIO, NoOut, x) ELSE Res(0, NoOut, x)

fw_pwm_store(dev, idx, buf, status) ==
    LET p == kstrtouint(buf)
    IN  IF p.err < 0 THEN Res(p.err, NoOut, <<>>)
        ELSE LET r == ec_set_fan_duty(dev, idx, p.val, status)
             IN  IF r.ret < 0 THEN Res(0 - EIO, NoOut, r.xfer)
                 ELSE Res(Len(buf), NoOut, r.xfer)

fw_pwm_min_show == Res(sysfs_emit(0), 0, <<>>)
fw_pwm_max_show == Res(sysfs_emit(100), 100, <<>>)

\* --------------------------------------------------------- battery hook
\* (mutant) strncmp(a, b, 3) == 0
StrEq_Prefix(a, b) ==
    /\ Len(a) >= 3
    /\ Len(b) >= 3
    /\ SubSeq(a, 1, 3) = SubSeq(b, 1, 3)
\* strcmp(a, b) == 0
StrEq(a, b) == a = b
BAT1 == <<"B", "A", "T", "1">>
\* framework_laptop_battery_add: name the battery's name, attached whether
\* the attribute group is already on the battery (device_add_groups then
\* fails), groups_ok whether device_add_groups succeeds otherwise.
framework_laptop_battery_add(name, attached, groups_ok) ==
    IF ~StrEq(name, BAT1) THEN [ret |-> 0 - ENODEV, attached |-> attached]
    ELSE IF attached \/ ~groups_ok THEN [ret |-> 0 - ENODEV, attached |-> attached]
    ELSE [ret |-> 0, attached |-> TRUE]
\* framework_laptop_battery_remove: device_remove_groups, whatever the name.
framework_laptop_battery_remove(name, attached) ==
    [ret |-> 0, attached |-> FALSE]

\* ------------------------------------------------------------- inputs
ThresholdBufs ==
    {<<"0">>,
     <<"1">>,
     <<"5", "0">>,
     <<"6", "0">>,
     <<"1", "0", "0">>,
     <<"1", "0", "1">>,
     <<"2", "5", "5">>,
     <<"2", "5", "6">>,
     <<"2", "1", "4", "7", "4", "8", "3", "6", "4", "7">>,
     <<"2", "1", "4", "7", "4", "8", "3", "6", "4", "8">>,
     <<"4", "2", "9", "4", "9", "6", "7", "1", "4", "0">>,
     <<"4", "2", "9", "4", "9", "6", "7", "2", "9", "5">>,
     <<"4", "2", "9", "4", "9", "6", "7", "2", "9", "6">>,
     <<>>,
     <<"x">>,
     <<"1", "2", "x">>,
     <<"+", "6", "0", "\n">>,
     <<"1", "0", "0", "\n">>}
FanBufs ==
    {<<"0">>,
     <<"5", "0">>,
     <<"1", "0", "0">>,
     <<"1", "0", "1">>,
     <<"3", "0", "0", "0">>,
     <<"4", "2", "9", "4", "9", "6", "7", "2", "9", "5">>,
     <<"x">>}
BatteryNames ==
    {<<"B", "A", "T", "0">>, BAT1, <<"B", "A", "T", "1", "0">>, <<"B", "A", "T">>, <<"b", "a", "t", "1">>}
\* max_percentage values an EC may answer with (a u8)
PctResps == {0, 60, 100, 255}
RpmResps == {0, 3000}
FanIdx == 0..(EC_FAN_SPEED_ENTRIES - 1)
\* brightness values the LED core passes: 0..max_brightness
Brightness == 0..100
\* the few of them SpecCall passes, and the few duties its transport answers
CallBrightness == {0, 1, 60, 100}
CallDuties == {0, 655, 39321, 65535}
\* what the EC stores for a brightness written, and duties it may hold
\* before any write: the ends, the middle, every 251st value
EcDutyFor(v) == (v * EC_PWM_MAX_DUTY) \div 100
DutySamples == {0, 1, 654, 655, 656, 32767, 32768, 65534, 65535}
                 \cup {k * 251 : k \in 0..261}

VARIABLES
    ec_device,        \* static struct device *ec_device
    cmd_readmem,      \* does the EC transport provide ec->cmd_readmem
    fw_hwmon_attrs,   \* static attribute table, 0..32
    pc,               \* per platform device: position in probe/remove
    drvdata,          \* per device: platform_get_drvdata(pdev) (NULL or "data")
    kb_led,           \* per device: data->kb_led is registered with the LED core
    hwmon_dev,        \* per device: data->hwmon_dev (NULL, "ERR" or "hwmon")
    hwmon,            \* per device: the hwmon core's view: registered, attributes published
    fan_count,        \* per device: probe's local fan_count
    probe_ret,        \* per device: return value of its last framework_probe
    battery_hook,     \* devices whose probe registered the (single) battery hook
    ref,              \* per device: reference taken by its probe: none/held/released
    gets,             \* per EC object: references taken by bus_find_device
    puts,             \* per EC object: references dropped by put_device
    nprobes,          \* probes started
    call,             \* SpecCall: the last handler call and its outcome
    ec_duty,          \* SpecCall: keyboard backlight duty the EC holds
    bat               \* SpecCall: per battery, is the attribute group attached
vars == <<ec_device, cmd_readmem, fw_hwmon_attrs, pc, drvdata, kb_led, hwmon_dev,
          hwmon, fan_count, probe_ret, battery_hook, ref, gets, puts, nprobes,
          call, ec_duty, bat>>
lifeVars == <<ec_device, cmd_readmem, fw_hwmon_attrs, pc, drvdata, kb_led, hwmon_dev,
              hwmon, fan_count, probe_ret, battery_hook, ref, gets, puts, nprobes>>
callVars == <<call, ec_duty, bat>>

\* ---------------------------------------------------------- life cycle
\* Probe and remove of one device run under the driver core, one device at a
\* time: a device starts a handler only while the others are at rest.
Idle(d) == pc[d] \in {"unbound", "bound"}
OthersIdle(d) == \A e \in Devs \ {d} : Idle(e)
NoHwmon == [registered |-> FALSE, attrs |-> <<>>]

\* framework_probe, lines 648-653: look the EC up; bus_find_device takes a
\* reference on the device it returns, ec_device is then set to its parent.
ProbeFind(d) ==
    /\ pc[d] = "unbound"
    /\ OthersIdle(d)
    /\ nprobes < MaxProbes
    /\ nprobes' = nprobes + 1
    /\ \E found \in BOOLEAN :
        IF found
        THEN /\ gets' = [gets EXCEPT ![EcChild] = @ + 1]
             /\ ec_device' = EcParent
             /\ ref' = [ref EXCEPT ![d] = "held"]
             /\ pc' = [pc EXCEPT ![d] = "p_alloc"]
             /\ UNCHANGED probe_ret
        ELSE /\ ec_device' = NULL
             /\ ref' = [ref EXCEPT ![d] = "none"]
             /\ probe_ret' = [probe_ret EXCEPT ![d] = 0 - EINVAL]
             /\ pc' = [pc EXCEPT ![d] = "p_failed"]
             /\ UNCHANGED gets
    /\ UNCHANGED <<cmd_readmem, fw_hwmon_attrs, drvdata, kb_led, hwmon_dev, hwmon,
                   fan_count, battery_hook, puts>>
    /\ UNCHANGED callVars

\* framework_probe, lines 655-660: devm_kzalloc and platform_set_drvdata.
ProbeAlloc(d) ==
    /\ pc[d] = "p_alloc"
    /\ \E ok \in BOOLEAN :
        IF ok
        THEN /\ drvdata' = [drvdata EXCEPT ![d] = "data"]
             /\ hwmon_dev' = [hwmon_dev EXCEPT ![d] = NULL]
             /\ pc' = [pc EXCEPT ![d] = "p_led"]
             /\ UNCHANGED probe_ret
        ELSE /\ probe_ret' = [probe_ret EXCEPT ![d] = 0 - ENOMEM]
             /\ pc' = [pc EXCEPT ![d] = "p_failed"]
             /\ UNCHANGED <<drvdata, hwmon_dev>>
    /\ UNCHANGED <<ec_device, cmd_readmem, fw_hwmon_attrs, kb_led, hwmon, fan_count,
                   battery_hook, ref, gets, puts, nprobes>>
    /\ UNCHANGED callVars

\* (mutant) the battery hook is registered along with the LED
ProbeLed_HookFirst(d) ==
    /\ pc[d] = "p_led"
    /\ \E ok \in BOOLEAN :
        IF ok
        THEN /\ kb_led' = [kb_led EXCEPT ![d] = TRUE]
             /\ battery_hook' = battery_hook \cup {d}
             /\ pc' = [pc EXCEPT ![d] = "p_fans"]
             /\ UNCHANGED probe_ret
        ELSE /\ probe_ret' = [probe_ret EXCEPT ![d] = 0 - EEXIST]
             /\ pc' = [pc EXCEPT ![d] = "p_failed"]
             /\ UNCHANGED <<kb_led, battery_hook>>
    /\ UNCHANGED <<ec_device, cmd_readmem, fw_hwmon_attrs, drvdata, hwmon_dev, hwmon,
                   fan_count, ref, gets, puts, nprobes>>
    /\ UNCHANGED callVars

\* framework_probe, lines 662-668: devm_led_classdev_register.
ProbeLed(d) ==
    /\ pc[d] = "p_led"
    /\ \E ok \in BOOLEAN :
        IF ok
        THEN /\ kb_led' = [kb_led EXCEPT ![d] = TRUE]
             /\ pc' = [pc EXCEPT ![d] = "p_fans"]
             /\ UNCHANGED probe_ret
        ELSE /\ probe_ret' = [probe_ret EXCEPT ![d] = 0 - EEXIST]
             /\ pc' = [pc EXCEPT ![d] = "p_failed"]
             /\ UNCHANGED kb_led
    /\ UNCHANGED <<ec_device, cmd_readmem, fw_hwmon_attrs, drvdata, hwmon_dev, hwmon,
                   fan_count, battery_hook, ref, gets, puts, nprobes>>
    /\ UNCHANGED callVars

\* (mutant) a transport without cmd_readmem fails the attach
ProbeFans_AbsentFails(d) ==
    /\ pc[d] = "p_fans"
    /\ IF ~cmd_readmem
       THEN /\ probe_ret' = [probe_ret EXCEPT ![d] = 0 - ENODEV]
            /\ pc' = [pc EXCEPT ![d] = "p_failed"]
            /\ UNCHANGED fan_count
       ELSE \E status \in {0 - 1, 2 * EC_FAN_SPEED_ENTRIES}, fans \in FanTables :
              LET r == ec_count_fans(ec_device, status, fans) IN
              IF r.ret < 0
              THEN /\ probe_ret' = [probe_ret EXCEPT ![d] = 0 - EINVAL]
                   /\ pc' = [pc EXCEPT ![d] = "p_failed"]
                   /\ UNCHANGED fan_count
              ELSE /\ fan_count' = [fan_count EXCEPT ![d] = r.out]
                   /\ pc' = [pc EXCEPT ![d] = "p_hwmon"]
                   /\ UNCHANGED probe_ret
    /\ UNCHANGED <<ec_device, cmd_readmem, fw_hwmon_attrs, drvdata, kb_led, hwmon_dev,
                   hwmon, battery_hook, ref, gets, puts, nprobes>>
    /\ UNCHANGED callVars

\* framework_probe, lines 686-693 and 702-705: without cmd_readmem the fan
\* part is skipped; with it the fans are counted.
ProbeFans(d) ==
    /\ pc[d] = "p_fans"
    /\ IF ~cmd_readmem
       THEN /\ pc' = [pc EXCEPT ![d] = "p_hook"]
            /\ UNCHANGED <<fan_count, probe_ret>>
       ELSE \E status \in {0 - 1, 2 * EC_FAN_SPEED_ENTRIES}, fans \in FanTables :
              LET r == ec_count_fans(ec_device, status, fans) IN
              IF r.ret < 0
              THEN /\ probe_ret' = [probe_ret EXCEPT ![d] = 0 - EINVAL]
                   /\ pc' = [pc EXCEPT ![d] = "p_failed"]
                   /\ UNCHANGED fan_count
              ELSE /\ fan_count' = [fan_count EXCEPT ![d] = r.out]
                   /\ pc' = [pc EXCEPT ![d] = "p_hwmon"]
                   /\ UNCHANGED probe_ret
    /\ UNCHANGED <<ec_device, cmd_readmem, fw_hwmon_attrs, drvdata, kb_led, hwmon_dev,
                   hwmon, battery_hook, ref, gets, puts, nprobes>>
    /\ UNCHANGED callVars

\* framework_probe, lines 694-700: write the terminator into the static
\* table, then register the hwmon device with the attribute group.
ProbeHwmon(d) ==
    /\ pc[d] = "p_hwmon"
    /\ fw_hwmon_attrs' = [fw_hwmon_attrs EXCEPT ![fan_count[d] * FW_ATTRS_PER_FAN] = NullAttr]
    /\ \E ok \in BOOLEAN :
        IF ok
        THEN /\ hwmon_dev' = [hwmon_dev EXCEPT ![d] = "hwmon"]
             /\ hwmon' = [hwmon EXCEPT ![d] =
                             [registered |-> TRUE, attrs |-> GroupAttrs(fw_hwmon_attrs')]]
             /\ pc' = [pc EXCEPT ![d] = "p_hook"]
             /\ UNCHANGED probe_ret
        ELSE /\ hwmon_dev' = [hwmon_dev EXCEPT ![d] = "ERR"]
             /\ probe_ret' = [probe_ret EXCEPT ![d] = 0 - ENOSPC]
             /\ pc' = [pc EXCEPT ![d] = "p_failed"]
             /\ UNCHANGED hwmon
    /\ UNCHANGED <<ec_device, cmd_readmem, drvdata, kb_led, fan_count, battery_hook,
                   ref, gets, puts, nprobes>>
    /\ UNCHANGED callVars

\* framework_probe, lines 707-709: battery_hook_register, return 0.
ProbeHook(d) ==
    /\ pc[d] = "p_hook"
    /\ battery_hook' = battery_hook \cup {d}
    /\ probe_ret' = [probe_ret EXCEPT ![d] = 0]
    /\ pc' = [pc EXCEPT ![d] = "bound"]
    /\ UNCHANGED <<ec_device, cmd_readmem, fw_hwmon_attrs, drvdata, kb_led, hwmon_dev,
                   hwmon, fan_count, ref, gets, puts, nprobes>>
    /\ UNCHANGED callVars

\* framework_remove, lines 716-718: battery_hook_unregister takes the one
\* static hook off the list, whoever registered it.
RemoveHook(d) ==
    /\ pc[d] = "bound"
    /\ OthersIdle(d)
    /\ battery_hook' = {}
    /\ pc' = [pc EXCEPT ![d] = "r_hwmon"]
    /\ UNCHANGED <<ec_device, cmd_readmem, fw_hwmon_attrs, drvdata, kb_led, hwmon_dev,
                   hwmon, fan_count, probe_ret, ref, gets, puts, nprobes>>
    /\ UNCHANGED callVars

\* framework_remove, lines 720-722.
RemoveHwmon(d) ==
    /\ pc[d] = "r_hwmon"
    /\ IF drvdata[d] # NULL /\ hwmon_dev[d] # NULL
       THEN hwmon' = [hwmon EXCEPT ![d] = NoHwmon]
       ELSE UNCHANGED hwmon
    /\ pc' = [pc EXCEPT ![d] = "r_put"]
    /\ UNCHANGED <<ec_device, cmd_readmem, fw_hwmon_attrs, drvdata, kb_led, hwmon_dev,
                   fan_count, probe_ret, battery_hook, ref, gets, puts, nprobes>>
    /\ UNCHANGED callVars

\* framework_remove, lines 724-726: put_device(ec_device); put_device(NULL)
\* does nothing. ec_device is left as it is.
RemovePut(d) ==
    /\ pc[d] = "r_put"
    /\ IF ec_device # NULL
       THEN /\ puts' = [puts EXCEPT ![ec_device] = @ + 1]
            /\ ref' = [ref EXCEPT ![d] = "released"]
       ELSE UNCHANGED <<puts, ref>>
    /\ pc' = [pc EXCEPT ![d] = "r_done"]
    /\ UNCHANGED <<ec_device, cmd_readmem, fw_hwmon_attrs, drvdata, kb_led, hwmon_dev,
                   hwmon, fan_count, probe_ret, battery_hook, gets, nprobes>>
    /\ UNCHANGED callVars

\* The driver core after a failed probe and after remove: the device's
\* managed resources go, which unregisters the devm LED and frees data.
DevresRelease(d) ==
    /\ pc[d] \in {"p_failed", "r_done"}
    /\ kb_led' = [kb_led EXCEPT ![d] = FALSE]
    /\ drvdata' = [drvdata EXCEPT ![d] = NULL]
    /\ hwmon_dev' = [hwmon_dev EXCEPT ![d] = NULL]
    /\ pc' = [pc EXCEPT ![d] = "unbound"]
    /\ UNCHANGED <<ec_device, cmd_readmem, fw_hwmon_attrs, hwmon, fan_count, probe_ret,
                   battery_hook, ref, gets, puts, nprobes>>
    /\ UNCHANGED callVars

\* The state after module load: nothing probed, the statics as initialised.
InitStatics ==
    /\ fw_hwmon_attrs = fw_hwmon_attrs_init
    /\ pc = [d \in Devs |-> "unbound"]
    /\ drvdata = [d \in Devs |-> NULL]
    /\ kb_led = [d \in Devs |-> FALSE]
    /\ hwmon_dev = [d \in Devs |-> NULL]
    /\ hwmon = [d \in Devs |-> NoHwmon]
    /\ fan_count = [d \in Devs |-> 0]
    /\ probe_ret = [d \in Devs |-> 0]
    /\ battery_hook = {}
    /\ ref = [d \in Devs |-> "none"]
    /\ gets = [o \in {EcChild, EcParent} |-> 0]
    /\ puts = [o \in {EcChild, EcParent} |-> 0]
    /\ nprobes = 0

NoCall == [op |-> "none", idx |-> 0, buf |-> <<>>, arg |-> 0, tbl |-> <<>>,
           ret |-> 0, out |-> NoOut, xfer |-> <<>>]
NoBattery == [attached |-> FALSE, hooked |-> FALSE]
InitCallVars ==
    /\ call = NoCall
    /\ ec_duty = 0
    /\ bat = [b \in BatteryNames |-> NoBattery]

InitLife ==
    /\ ec_device = NULL
    /\ cmd_readmem \in BOOLEAN
    /\ InitStatics

Init == InitLife /\ InitCallVars

Next ==
    \E d \in Devs :
        \/ ProbeFind(d)
        \/ ProbeAlloc(d)
        \/ ProbeLed(d)
        \/ ProbeFans(d)
        \/ ProbeHwmon(d)
        \/ ProbeHook(d)
        \/ RemoveHook(d)
        \/ RemoveHwmon(d)
        \/ RemovePut(d)
        \/ DevresRelease(d)

Spec == Init /\ [][Next]_vars

\* ------------------------------------------------------- handler calls
\* SpecCall: one step is one call of a handler by its framework (sysfs, the
\* LED core, the battery-hook core), with the transport's answer arbitrary.
Called(op, idx, buf, arg, tbl, r) ==
    [op |-> op, idx |-> idx, buf |-> buf, arg |-> arg, tbl |-> tbl,
     ret |-> r.ret, out |-> r.out, xfer |-> r.xfer]

CallThresholdShow ==
    /\ \E status \in XferStatuses, resp \in PctResps :
        call' = Called("charge_control_end_threshold_show", 0, <<>>, 0, <<>>,
                       battery_get_threshold(ec_device, status, resp))
    /\ UNCHANGED <<ec_duty, bat>> /\ UNCHANGED lifeVars

CallThresholdStore ==
    /\ \E buf \in ThresholdBufs, status \in XferStatuses, resp \in PctResps :
        call' = Called("charge_control_end_threshold_store", 0, buf, 0, <<>>,
                       battery_set_threshold(ec_device, buf, status, resp))
    /\ UNCHANGED <<ec_duty, bat>> /\ UNCHANGED lifeVars

CallKbLedGet ==
    /\ \E status \in XferStatuses, duty \in CallDuties :
        call' = Called("kb_led_get", 0, <<>>, duty, <<>>, kb_led_get(ec_device, status, duty))
    /\ UNCHANGED <<ec_duty, bat>> /\ UNCHANGED lifeVars

CallKbLedSet ==
    /\ \E value \in CallBrightness, status \in XferStatuses :
        call' = Called("kb_led_set", 0, <<>>, value, <<>>, kb_led_set(ec_device, value, status))
    /\ UNCHANGED <<ec_duty, bat>> /\ UNCHANGED lifeVars

CallFanSpeedShow ==
    /\ \E idx \in FanIdx, status \in XferStatuses, raw \in FanVals :
        call' = Called("fw_fan_speed_show", idx, <<>>, raw, <<>>,
                       fw_fan_speed_show(ec_device, idx, status, raw))
    /\ UNCHANGED <<ec_duty, bat>> /\ UNCHANGED lifeVars

CallFanFaultShow ==
    /\ \E idx \in FanIdx, status \in XferStatuses, raw \in FanVals :
        call' = Called("fw_fan_fault_show", idx, <<>>, raw, <<>>,
                       fw_fan_fault_show(ec_device, idx, status, raw))
    /\ UNCHANGED <<ec_duty, bat>> /\ UNCHANGED lifeVars

CallFanAlarmShow ==
    /\ \E idx \in FanIdx, status \in XferStatuses, raw \in FanVals :
        call' = Called("fw_fan_alarm_show", idx, <<>>, raw, <<>>,
                       fw_fan_alarm_show(ec_device, idx, status, raw))
    /\ UNCHANGED <<ec_duty, bat>> /\ UNCHANGED lifeVars

CallFanTargetStore ==
    /\ \E idx \in FanIdx, buf \in FanBufs, status \in XferStatuses :
        call' = Called("fw_fan_target_store", idx, buf, 0, <<>>,
                       fw_fan_target_store(ec_device, idx, buf, status))
    /\ UNCHANGED <<ec_duty, bat>> /\ UNCHANGED lifeVars

CallFanTargetShow ==
    /\ \E idx \in FanIdx, status \in XferStatuses, rpm \in RpmResps :
        call' = Called("fw_fan_target_show", idx, <<>>, rpm, <<>>,
                       fw_fan_target_show(ec_device, idx, status, rpm))
    /\ UNCHANGED <<ec_duty, bat>> /\ UNCHANGED lifeVars

CallPwmEnableStore ==
    /\ \E idx \in FanIdx, buf \in FanBufs, status \in XferStatuses :
        call' = Called("fw_pwm_enable_store", idx, buf, 0, <<>>,
                       fw_pwm_enable_store(ec_device, idx, buf, status))
    /\ UNCHANGED <<ec_duty, bat>> /\ UNCHANGED lifeVars

CallPwmStore ==
    /\ \E idx \in FanIdx, buf \in FanBufs, status \in XferStatuses :
        call' = Called("fw_pwm_store", idx, buf, 0, <<>>,
                       fw_pwm_store(ec_device, idx, buf, status))
    /\ UNCHANGED <<ec_duty, bat>> /\ UNCHANGED lifeVars

CallPwmMinShow ==
    /\ \E idx \in FanIdx : call' = Called("fw_pwm_min_show", idx, <<>>, 0, <<>>, fw_pwm_min_show)
    /\ UNCHANGED <<ec_duty, bat>> /\ UNCHANGED lifeVars

CallPwmMaxShow ==
    /\ \E idx \in FanIdx : call' = Called("fw_pwm_max_show", idx, <<>>, 0, <<>>, fw_pwm_max_show)
    /\ UNCHANGED <<ec_duty, bat>> /\ UNCHANGED lifeVars

CallCountFans ==
    /\ \E status \in XferStatuses, fans \in FanTables :
        call' = Called("ec_count_fans", 0, <<>>, 0, fans, ec_count_fans(ec_device, status, fans))
    /\ UNCHANGED <<ec_duty, bat>> /\ UNCHANGED lifeVars

\* The battery-hook core calls add_battery / remove_battery for a battery;
\* arg records whether device_add_groups succeeds on that battery.
CallBatteryAdd ==
    /\ \E b \in BatteryNames, groups_ok \in BOOLEAN :
        LET r == framework_laptop_battery_add(b, bat[b].attached, groups_ok) IN
        /\ bat' = [bat EXCEPT ![b] = [attached |-> r.attached,
                                      hooked |-> (r.ret = 0) \/ bat[b].hooked]]
        /\ call' = Called("framework_laptop_battery_add", 0, b,
                          IF groups_ok /\ ~bat[b].attached THEN 1 ELSE 0, <<>>,
                          Res(r.ret, NoOut, <<>>))
    /\ UNCHANGED ec_duty /\ UNCHANGED lifeVars

CallBatteryRemove ==
    /\ \E b \in BatteryNames :
        LET r == framework_laptop_battery_remove(b, bat[b].attached) IN
        /\ bat' = [bat EXCEPT ![b] = [attached |-> r.attached, hooked |-> FALSE]]
        /\ call' = Called("framework_laptop_battery_remove", 0, b, 0, <<>>,
                          Res(r.ret, NoOut, <<>>))
    /\ UNCHANGED ec_duty /\ UNCHANGED lifeVars

\* The handle a handler may find is unresolved or the EC (Spec reaches both
\* with a capability registered); the fan handlers exist with cmd_readmem.
InitCall ==
    /\ ec_device \in {NULL, EcParent}
    /\ cmd_readmem = TRUE
    /\ InitStatics
    /\ InitCallVars

NextCall ==
    \/ CallThresholdShow
    \/ CallThresholdStore
    \/ CallKbLedGet
    \/ CallKbLedSet
    \/ CallFanSpeedShow
    \/ CallFanFaultShow
    \/ CallFanAlarmShow
    \/ CallFanTargetStore
    \/ CallFanTargetShow
    \/ CallPwmEnableStore
    \/ CallPwmStore
    \/ CallPwmMinShow
    \/ CallPwmMaxShow
    \/ CallCountFans
    \/ CallBatteryAdd
    \/ CallBatteryRemove

SpecCall == InitCall /\ [][NextCall]_vars

\* ------------------------------------------------- backlight round trip
\* SpecEcho: the backlight handlers against an EC that keeps the duty it was
\* last given: a write of percent stores EcDutyFor(percent), a read returns
\* the stored duty. The exchanges succeed.
EchoKbLedSet ==
    /\ \E value \in Brightness :
        LET r == kb_led_set(ec_device, value, 0) IN
        /\ call' = Called("kb_led_set", 0, <<>>, value, <<>>, r)
        /\ ec_duty' = EcDutyFor(r.xfer[1].a)
    /\ UNCHANGED bat /\ UNCHANGED lifeVars

EchoKbLedGet ==
    /\ call' = Called("kb_led_get", 0, <<>>, ec_duty, <<>>, kb_led_get(ec_device, 0, ec_duty))
    /\ UNCHANGED <<ec_duty, bat>> /\ UNCHANGED lifeVars

InitEcho ==
    /\ ec_device = EcParent
    /\ cmd_readmem = TRUE
    /\ InitStatics
    /\ call = NoCall
    /\ ec_duty \in DutySamples
    /\ bat = [b \in BatteryNames |-> NoBattery]

NextEcho == EchoKbLedSet \/ EchoKbLedGet

SpecEcho == InitEcho /\ [][NextEcho]_vars

\* =============================================================== claims
ParseOk(buf) == kstrtouint(buf).err = 0
Parsed(buf) == kstrtouint(buf).val
Above100(w) == Hi(w) > 0 \/ Lo(w) > 100
XferFailed == \E i \in 1..Len(call.xfer) : call.xfer[i].status < 0
XferOk == call.xfer # <<>> /\ ~XferFailed

\* C1: for every decimal p the parser accepts, a write of p to
\* charge_control_end_threshold fails with -EINVAL and makes no exchange when
\* p > 100; with the handle resolved and the transport succeeding it succeeds
\* iff p <= 100; no SET_LIMIT exchange carries a max_percentage above 100.
C1_ThresholdValidated ==
    (call.op = "charge_control_end_threshold_store" /\ ParseOk(call.buf)) =>
        /\ Above100(Parsed(call.buf)) => (call.ret = 0 - EINVAL /\ call.xfer = <<>>)
        /\ (ec_device # NULL /\ ~XferFailed) =>
              ((call.ret = Len(call.buf)) <=> ~Above100(Parsed(call.buf)))
        /\ \A i \in 1..Len(call.xfer) :
              (call.xfer[i].cmd = "EC_CMD_CHARGE_LIMIT_CONTROL"
                 /\ call.xfer[i].a = CHG_LIMIT_SET_LIMIT) => call.xfer[i].b \in 0..100

\* C4: a handler that needs the EC, called with valid input while the handle
\* is unresolved, returns -ENODEV and makes no exchange; kb_led_get alone
\* returns 0.
EcHandlers ==
    {"charge_control_end_threshold_show", "charge_control_end_threshold_store",
     "kb_led_set", "fw_fan_speed_show", "fw_fan_fault_show", "fw_fan_alarm_show",
     "fw_fan_target_show", "fw_fan_target_store", "fw_pwm_store", "fw_pwm_enable_store"}
ValidInput ==
    /\ call.op = "charge_control_end_threshold_store" =>
          (ParseOk(call.buf) /\ ~Above100(Parsed(call.buf)))
    /\ call.op \in {"fw_fan_target_store", "fw_pwm_store"} => ParseOk(call.buf)
    /\ call.op = "fw_fan_target_show" => call.idx = 0
C4_NoDeviceWhenUnresolved ==
    ec_device = NULL =>
        /\ (call.op \in EcHandlers /\ ValidInput) =>
              (call.ret = 0 - ENODEV /\ call.xfer = <<>>)
        /\ call.op = "kb_led_get" => (call.ret = 0 /\ call.xfer = <<>>)

\* C6: ec_count_fans makes one memory read; when it succeeds the count is the
\* index of the first NOT_PRESENT entry, or EC_FAN_SPEED_ENTRIES when there
\* is none (no other value ends the scan), so it lies in 0..4; when the read
\* fails or the handle is unresolved the call fails and gives no count.
C6_CountIsFirstNotPresent ==
    call.op = "ec_count_fans" =>
        /\ Len(call.xfer) = (IF ec_device = NULL THEN 0 ELSE 1)
        /\ IF XferOk
           THEN /\ call.ret = 0
                /\ call.out \in 0..EC_FAN_SPEED_ENTRIES
                /\ \A i \in 0..(call.out - 1) : call.tbl[i] # EC_FAN_SPEED_NOT_PRESENT
                /\ call.out < EC_FAN_SPEED_ENTRIES =>
                      call.tbl[call.out] = EC_FAN_SPEED_NOT_PRESENT
           ELSE call.ret < 0 /\ call.out = NoOut
\* a table with a stalled fan before the first absent one counts past it
C6_Witness ==
    /\ call.op = "ec_count_fans"
    /\ XferOk
    /\ call.tbl[0] = 1200
    /\ call.tbl[1] = EC_FAN_SPEED_STALLED
    /\ call.tbl[2] = EC_FAN_SPEED_NOT_PRESENT
    /\ call.tbl[3] = 1200
    /\ call.out = 2

\* C7: for a raw reading r a successful memory read returns, fanN_fault
\* emits 1 iff r = NOT_PRESENT, fanN_alarm emits 1 iff r = STALLED (never
\* both for one r), and fanN_input emits 0 for either sentinel, r otherwise.
C7_FanReadings ==
    XferOk =>
        /\ call.op = "fw_fan_fault_show" =>
              /\ call.out = (IF call.arg = EC_FAN_SPEED_NOT_PRESENT THEN 1 ELSE 0)
              /\ call.out = 1 => call.arg # EC_FAN_SPEED_STALLED
        /\ call.op = "fw_fan_alarm_show" =>
              /\ call.out = (IF call.arg = EC_FAN_SPEED_STALLED THEN 1 ELSE 0)
              /\ call.out = 1 => call.arg # EC_FAN_SPEED_NOT_PRESENT
        /\ call.op = "fw_fan_speed_show" =>
              call.out = (IF call.arg \in {EC_FAN_SPEED_NOT_PRESENT, EC_FAN_SPEED_STALLED}
                          THEN 0 ELSE call.arg)
        /\ call.op \in {"fw_fan_fault_show", "fw_fan_alarm_show", "fw_fan_speed_show"} =>
              call.ret > 0
C7_Witness ==
    /\ call.op = "fw_fan_speed_show"
    /\ XferOk
    /\ call.arg = EC_FAN_SPEED_STALLED
    /\ call.out = 0

\* C8: kb_led_get never returns an error: 0 without an exchange when the
\* handle is unresolved, 0 when its one exchange fails; every other handler
\* returns an error, and emits no value, when an exchange of its fails.
C8_OnlyBacklightGetSwallows ==
    /\ Len(call.xfer) <= 1
    /\ call.op = "kb_led_get" =>
          /\ call.ret >= 0
          /\ ec_device = NULL => (call.ret = 0 /\ call.xfer = <<>>)
          /\ XferFailed => call.ret = 0
    /\ (call.op # "kb_led_get" /\ XferFailed) => (call.ret < 0 /\ call.out = NoOut)
C8_Witness ==
    /\ call.op = "kb_led_get"
    /\ XferFailed
    /\ call.ret = 0

\* C10: on_add accepts a battery iff its name is exactly "BAT1" and attaching
\* the attribute group succeeds; the group is on a battery exactly when the
\* battery is named "BAT1", an on_add for it was accepted and no on_remove for
\* it has run since; only an on_remove for that battery takes the group off.
C10_State ==
    /\ \A b \in BatteryNames : bat[b].attached <=> (b = BAT1 /\ bat[b].hooked)
    /\ call.op = "framework_laptop_battery_add" =>
          ((call.ret = 0) <=> (call.buf = BAT1 /\ call.arg = 1))
C10_Step ==
    \A b \in BatteryNames :
        (bat[b].attached /\ ~bat'[b].attached) =>
            (call'.op = "framework_laptop_battery_remove" /\ call'.buf = b)
C10_OnlyBat1Attached == []C10_State /\ [][C10_Step]_vars
\* the group stays on BAT1 through an on_remove for another battery
C10_Witness ==
    /\ bat[BAT1].attached
    /\ call.op = "framework_laptop_battery_remove"
    /\ call.buf # BAT1

\* C9: a successful kb_led_get of duty d returns floor(d * 100 / 65535), in
\* 0..100, and d * 100 fits an int; after a successful kb_led_set(v) the next
\* kb_led_get returns v or v - 1, and 60 for v = 60.
FloorDiv(n, m) == CHOOSE q \in 0..n : q * m <= n /\ n < (q + 1) * m
C9_State ==
    (call.op = "kb_led_get" /\ XferOk) =>
        /\ call.arg * 100 <= INT_MAX
        /\ call.ret = FloorDiv(call.arg * 100, EC_PWM_MAX_DUTY)
        /\ call.ret \in 0..100
C9_Step ==
    (call.op = "kb_led_set" /\ call.ret = 0 /\ call'.op = "kb_led_get") =>
        /\ call'.ret \in {call.arg, call.arg - 1}
        /\ call.arg = 60 => call'.ret = 60
C9_BacklightScale == []C9_State /\ [][C9_Step]_vars
\* brightness 60 written, duty 39321 stored, 60 read back
C9_Witness ==
    /\ call.op = "kb_led_get"
    /\ ec_duty = EcDutyFor(60)
    /\ call.ret = 60

\* --------------------------------------------------- life-cycle claims
\* C2: the attributes a registered hwmon device publishes are the 8
\* attributes of each of fans 0..N-1, in the table's order, N being the fan
\* count its attach discovered: the first terminator is at N * 8.
C2_TerminatorAtFanCount ==
    \A d \in Devs :
        hwmon[d].registered =>
            hwmon[d].attrs =
                [k \in 1..(fan_count[d] * FW_ATTRS_PER_FAN) |-> fw_hwmon_attrs_init[k - 1]]

\* C3: once a device's detach has released the handle reference, none of its
\* capabilities that use the handle is still registered: not the battery
\* hook, not the hwmon device, not the keyboard-backlight LED.
C3_TornDownBeforeRelease ==
    \A d \in Devs :
        ref[d] = "released" =>
            /\ d \notin battery_hook
            /\ ~hwmon[d].registered
            /\ ~kb_led[d]

\* C5: after a failed attach has been unwound the device has no LED, no
\* hwmon device and no battery hook registered; the attach steps run in the
\* order handle, LED, fan count, hwmon, battery hook, so that the hook is
\* registered only by an attach that has passed every step that can fail.
InProbe(d) == pc[d] \in {"p_alloc", "p_led", "p_fans", "p_hwmon", "p_hook", "p_failed"}
C5_FailedAttachLeavesNothing ==
    \A d \in Devs :
        /\ (pc[d] = "unbound" /\ probe_ret[d] < 0) =>
              (~kb_led[d] /\ ~hwmon[d].registered /\ d \notin battery_hook)
        /\ (InProbe(d) /\ kb_led[d]) => (ref[d] = "held" /\ ec_device # NULL)
        /\ pc[d] = "p_hwmon" => kb_led[d]
        /\ hwmon[d].registered => kb_led[d]
        /\ pc[d] = "p_failed" => (~hwmon[d].registered /\ d \notin battery_hook)
        /\ d \in battery_hook =>
              /\ pc[d] = "bound"
              /\ probe_ret[d] = 0
              /\ kb_led[d]
              /\ cmd_readmem => hwmon[d].registered
\* an attach that failed at the last step that can fail, unwound, while the
\* other device stays attached
C5_Witness ==
    \E d \in Devs, e \in Devs :
        /\ d # e
        /\ pc[d] = "unbound"
        /\ probe_ret[d] = 0 - ENOSPC
        /\ pc[e] = "bound"
        /\ e \in battery_hook

\* A capability can be registered while the handle is unresolved: one device
\* is attached, and a later attach of the other fails to find the EC.
UnresolvedWhileRegistered == \E d \in Devs : kb_led[d] /\ pc[d] = "bound" /\ ec_device = NULL

\* An attach that got past the LED has ended its fan part: it failed, or it
\* is about to register (or has registered) the battery hook.
FanPartDone(d) == kb_led[d] /\ pc[d] \in {"p_failed", "p_hook", "bound"}
\* ec_count_fans returned an error to this attach.
DiscoveryFailed(d) == pc[d] = "p_failed" /\ kb_led[d] /\ hwmon_dev[d] # "ERR"
\* Without cmd_readmem: once the LED is registered the attach cannot fail, the
\* fans are never counted, nothing is published, data->hwmon_dev stays NULL
\* (so detach skips hwmon_device_unregister) and the attach ends by
\* registering the battery hook with the LED still registered.
C11_AbsentState ==
    ~cmd_readmem =>
        \A d \in Devs :
            /\ pc[d] = "p_failed" => ~kb_led[d]
            /\ pc[d] # "p_hwmon"
            /\ ~hwmon[d].registered
            /\ hwmon_dev[d] = NULL
C11_AbsentStep ==
    \A d \in Devs :
        /\ (pc[d] = "p_hook" /\ pc'[d] = "bound") =>
              (d \in battery_hook' /\ kb_led'[d] /\ probe_ret'[d] = 0)
        /\ (~cmd_readmem /\ pc[d] = "r_hwmon" /\ pc'[d] = "r_put") => hwmon' = hwmon

\* C11 as stated: without cmd_readmem the attach succeeds with the LED and
\* the battery hook registered, no fan discovery and no hwmon table, and the
\* detach skips the hwmon unregistration; with cmd_readmem the hwmon table is
\* published iff fan-count discovery succeeded.
C11_PublishedIffDiscovered ==
    /\ C11_AbsentState
    /\ cmd_readmem =>
          \A d \in Devs :
              FanPartDone(d) => (hwmon[d].registered <=> ~DiscoveryFailed(d))

\* C11 amended: as above, but with cmd_readmem the hwmon table is published
\* iff fan-count discovery and the hwmon registration both succeeded.
C11_AmendedState ==
    /\ C11_AbsentState
    /\ cmd_readmem =>
          \A d \in Devs :
              FanPartDone(d) =>
                  (hwmon[d].registered <=> (~DiscoveryFailed(d) /\ hwmon_dev[d] # "ERR"))
C11_ReadmemGatesHwmon == []C11_AmendedState /\ [][C11_AbsentStep]_vars
\* attached without cmd_readmem and detaching, past the hwmon step: the LED
\* is up, no hwmon device was ever there
C11_Witness ==
    \E d \in Devs :
        /\ ~cmd_readmem
        /\ pc[d] = "r_put"
        /\ probe_ret[d] = 0
        /\ kb_led[d]
        /\ ~hwmon[d].registered

\* C12 as stated: a write of p to pwm{i} sends a set-fan-duty command only
\* if p is in 0..100; a write with p > 100 fails with -EINVAL and sends
\* nothing, so no duty command carries a percent above 100.
C12_PwmValidated ==
    (call.op = "fw_pwm_store" /\ ParseOk(call.buf)) =>
        /\ Above100(Parsed(call.buf)) => (call.ret = 0 - EINVAL /\ call.xfer = <<>>)
        /\ \A i \in 1..Len(call.xfer) :
              call.xfer[i].cmd = "EC_CMD_PWM_SET_FAN_DUTY" => ~Above100(call.xfer[i].w)

\* C13 as stated: on every device object the bridge never drops more
\* references than it took on that object, and once every attach has ended
\* (failed, or succeeded and detached) it holds none: takes equal drops.
C13_RefsBalanced ==
    \A o \in {EcChild, EcParent} :
        /\ puts[o] <= gets[o]
        /\ (\A d \in Devs : pc[d] = "unbound") => gets[o] = puts[o]

====
